---- MODULE Spec2Model ----
(***************************************************************************)
(* A model of epac/taxonomy_util.py: class Taxonomy, the store that maps   *)
(* sequence identifiers to rank paths (seq_ranks_map) and lineage keys to  *)
(* groups of identifiers (rank_seqs_map), and the operations on it; class  *)
(* TaxCode, which guesses the level of a rank name; class TaxTreeBuilder,  *)
(* which builds the tree of the store's lineages.                          *)
(*                                                                         *)
(* A Python str is a sequence of one-character strings, so that joining,   *)
(* splitting, suffix tests and character translation are computed as the   *)
(* code computes them.  A Python list object is a cell of `lists`; the     *)
(* dict seq_ranks_map holds references to cells, so two identifiers may    *)
(* share one list object (merge_ranks stores the same list for every       *)
(* identifier it moves).  Levels are 0-based as in the code.               *)
(***************************************************************************)
EXTENDS Integers, Sequences, FiniteSets, TLC

VARIABLES
    prefix,         \* Taxonomy.prefix
    seq_ranks_map,  \* Taxonomy.seq_ranks_map: identifier -> reference of a list
    lists,          \* the list objects: reference -> list of rank names
    rank_seqs_map,  \* Taxonomy.rank_seqs_map: lineage key -> list of identifiers
    call,           \* the last call made: its name and arguments
    old,            \* the contents of both maps when the last call was made
    result,         \* what the last call returned (ret) or raised (exc), and the
                    \* rank names check_for_duplicates found in conflict (names)
    steps,          \* number of calls made so far
    tree_nodes,     \* TaxTreeBuilder.tree_nodes: lineage key -> reference of a node
    leaf_count,     \* TaxTreeBuilder.leaf_count: lineage key -> number of sequences
    nodes,          \* the tree node objects: reference -> name, parent, children
    unpruned        \* the node objects as the last build had them before it pruned

tree_vars == <<tree_nodes, leaf_count, nodes, unpruned>>

vars == <<prefix, seq_ranks_map, lists, rank_seqs_map, call, old, result, steps,
          tree_nodes, leaf_count, nodes, unpruned>>

-----------------------------------------------------------------------------
(* Python str and list primitives *)

Min(a, b) == IF a < b THEN a ELSE b
Max(a, b) == IF a > b THEN a ELSE b

\* iterating a str yields its characters, each a str of length 1
Chars(s) == [i \in 1..Len(s) |-> <<s[i]>>]

\* sep.join(parts)
RECURSIVE Join(_, _)
Join(sep, parts) ==
    IF Len(parts) = 0 THEN <<>>
    ELSE IF Len(parts) = 1 THEN parts[1]
    ELSE parts[1] \o sep \o Join(sep, Tail(parts))

\* s.startswith(p), s.endswith(suf)
StartsWith(s, p) == Len(p) <= Len(s) /\ SubSeq(s, 1, Len(p)) = p
EndsWith(s, suf) == Len(suf) <= Len(s) /\ SubSeq(s, Len(s) - Len(suf) + 1, Len(s)) = suf

\* s.find(sep) as a 1-based position, 0 when sep does not occur
Find(s, sep) ==
    LET hits == {k \in 1..(Len(s) - Len(sep) + 1) : SubSeq(s, k, k + Len(sep) - 1) = sep}
    IN  IF hits = {} THEN 0 ELSE CHOOSE k \in hits : \A j \in hits : k <= j

\* s.split(sep): cut at the occurrences of sep, leftmost first, not overlapping
RECURSIVE Split(_, _)
Split(s, sep) ==
    LET k == Find(s, sep)
    IN  IF k = 0 THEN <<s>>
        ELSE <<SubSeq(s, 1, k - 1)>> \o Split(SubSeq(s, k + Len(sep), Len(s)), sep)

\* s.strip(c) for a single character c
RECURSIVE LStrip(_, _)
LStrip(s, c) == IF Len(s) > 0 /\ s[1] = c THEN LStrip(Tail(s), c) ELSE s
RECURSIVE RStrip(_, _)
RStrip(s, c) == IF Len(s) > 0 /\ s[Len(s)] = c THEN RStrip(SubSeq(s, 1, Len(s) - 1), c) ELSE s
Strip(s, c) == RStrip(LStrip(s, c), c)

\* s.strip(): leading and trailing whitespace removed.  The whitespace of str
\* is the blank, tab, newline, carriage return, form feed and vertical tab; the
\* last string of the set holds the vertical tab character (code 11) itself.
WHITESPACE == {" ", "\t", "\n", "\r", "\f", ""}
RECURSIVE LStripSpace(_)
LStripSpace(s) == IF Len(s) > 0 /\ s[1] \in WHITESPACE THEN LStripSpace(Tail(s)) ELSE s
RECURSIVE RStripSpace(_)
RStripSpace(s) ==
    IF Len(s) > 0 /\ s[Len(s)] \in WHITESPACE THEN RStripSpace(SubSeq(s, 1, Len(s) - 1)) ELSE s
StripSpace(s) == RStripSpace(LStripSpace(s))

\* s.translate(maketrans(invalid_chars, "_" * len(invalid_chars)))
Translate(s, invalid_chars) == [i \in 1..Len(s) |-> IF s[i] \in invalid_chars THEN "_" ELSE s[i]]

\* xs[:n] and xs[i] with Python's negative indices
SliceTo(xs, n) ==
    IF n >= 0 THEN SubSeq(xs, 1, Min(n, Len(xs))) ELSE SubSeq(xs, 1, Max(Len(xs) + n, 0))
Item(xs, i) == IF i >= 0 THEN xs[i + 1] ELSE xs[Len(xs) + i + 1]

\* all orders in which a set can be iterated
RECURSIVE Perms(_)
Perms(S) == IF S = {} THEN {<<>>}
            ELSE UNION {{<<x>> \o p : p \in Perms(S \ {x})} : x \in S}

Range(f) == {f[x] : x \in DOMAIN f}

\* d with key k bound to v (added or replaced), and d without key k
Put(d, k, v) == [x \in DOMAIN d \cup {k} |-> IF x = k THEN v ELSE d[x]]
Del(d, k) == [x \in DOMAIN d \ {k} |-> d[x]]

-----------------------------------------------------------------------------
(* class Taxonomy: constants and static methods *)

EMPTY_RANK == <<"-">>
RANK_UID_DELIM == <<"@", "@">>
TAXCLUSTER == <<"_", "_", "T", "A", "X", "C", "L", "U", "S", "T", "E", "R", "_", "_">>

\* Taxonomy.lineage_str(ranks)
lineage_str(ranks) == Strip(Join(<<";">>, ranks), ";")

\* the while loop of Taxonomy.lowest_assigned_rank_level
RECURSIVE LowestFrom(_, _)
LowestFrom(ranks, rank_level) ==
    IF rank_level >= 0 /\ ranks[rank_level + 1] = EMPTY_RANK
    THEN LowestFrom(ranks, rank_level - 1)
    ELSE rank_level

\* Taxonomy.lowest_assigned_rank_level(ranks): -1 when nothing is assigned
lowest_assigned_rank_level(ranks) == LowestFrom(ranks, Len(ranks) - 1)

\* a key that leaves out the level it should end with (ranks[:rank_level])
get_rank_uid_drop_last(ranks, rank_level) ==
    LET lvl == IF rank_level = -1 THEN lowest_assigned_rank_level(ranks) ELSE rank_level
    IN  Join(RANK_UID_DELIM, SliceTo(ranks, lvl))

\* Taxonomy.get_rank_uid(ranks, rank_level); rank_level = -1 is the default
get_rank_uid(ranks, rank_level) ==
    LET lvl == IF rank_level = -1 THEN lowest_assigned_rank_level(ranks) ELSE rank_level
    IN  Join(RANK_UID_DELIM, SliceTo(ranks, lvl + 1))

\* Taxonomy.split_rank_uid(rank_uid, min_lvls)
split_rank_uid(rank_uid, min_lvls) ==
    LET ranks == Split(rank_uid, RANK_UID_DELIM)
    IN  IF Len(ranks) < min_lvls
        THEN ranks \o [i \in 1..(min_lvls - Len(ranks)) |-> EMPTY_RANK]
        ELSE ranks

-----------------------------------------------------------------------------
(* the store *)

\* the rank path an identifier maps to
Ranks(sid) == lists[seq_ranks_map[sid]]

\* the forward map by value: identifier -> rank path
Forward(m, l) == [sid \in DOMAIN m |-> l[m[sid]]]

\* a reference no list object uses yet
NewRef(l) == CHOOSE n \in 1..(Cardinality(DOMAIN l) + 1) :
                 n \notin DOMAIN l /\ \A k \in 1..(n - 1) : k \in DOMAIN l

\* the list objects still referenced by the forward map
Live(m, l) == [r \in Range(m) |-> l[r]]


\* None where a str may stand
NONE == <<"None">>

\* a returned value, tagged with its Python type
ReturnedNone == [NoneType |-> TRUE]
ReturnedStr(s) == [str |-> s]
ReturnedDict(d) == [dict |-> d]
ReturnedList(xs) == [list |-> xs]

\* what an operation leaves behind: both maps, the list objects, and what it
\* returned (ret) or raised (exc)
Outcome(m, l, g, ret, exc) == [m |-> m, l |-> l, g |-> g, ret |-> ret, exc |-> exc]

\* the key Taxonomy.get_seq_ranks looks up (lines 262-263)
SeqKey(pfx, seq_id) == IF ~StartsWith(seq_id, pfx) THEN pfx \o seq_id ELSE seq_id

\* Taxonomy.remove_seq(seqid): line 253 looks the identifier up, line 254 indexes
\* rank_seqs_map and then evaluates the name seq_id, which is not defined
remove_seq(pfx, m, l, g, seqid) ==
    LET k == SeqKey(pfx, seqid)
    IN  IF k \notin DOMAIN m THEN Outcome(m, l, g, ReturnedNone, "KeyError")
        ELSE IF get_rank_uid(l[m[k]], -1) \notin DOMAIN g
             THEN Outcome(m, l, g, ReturnedNone, "KeyError")
             ELSE Outcome(m, l, g, ReturnedNone, "NameError")

\* Taxonomy.rename_seq(old_seqid, new_seqid)
rename_seq(m, l, g, old_seqid, new_seqid) ==
    IF old_seqid \notin DOMAIN m THEN Outcome(m, l, g, ReturnedNone, "KeyError")
    ELSE Outcome(Del(Put(m, new_seqid, m[old_seqid]), old_seqid), l, g, ReturnedNone, "none")

\* a loop that collects the groups and deletes none of them
RECURSIVE MergeCollect_keep_groups(_, _, _, _)
MergeCollect_keep_groups(g, rank_ids, i, all_sid) ==
    IF i > Len(rank_ids) THEN [g |-> g, all_sid |-> all_sid, exc |-> "none"]
    ELSE IF rank_ids[i] \notin DOMAIN g
         THEN [g |-> g, all_sid |-> all_sid, exc |-> "KeyError"]
         ELSE MergeCollect_keep_groups(g, rank_ids, i + 1, all_sid \o g[rank_ids[i]])

\* the loop of merge_ranks over rank_ids (lines 285-287)
RECURSIVE MergeCollect(_, _, _, _)
MergeCollect(g, rank_ids, i, all_sid) ==
    IF i > Len(rank_ids) THEN [g |-> g, all_sid |-> all_sid, exc |-> "none"]
    ELSE IF rank_ids[i] \notin DOMAIN g
         THEN [g |-> g, all_sid |-> all_sid, exc |-> "KeyError"]
         ELSE MergeCollect(Del(g, rank_ids[i]), rank_ids, i + 1, all_sid \o g[rank_ids[i]])

\* Taxonomy.merge_ranks(rank_ids, name_prefix)
merge_ranks(m, l, g, rank_ids, name_prefix) ==
    IF Len(rank_ids) < 2 THEN Outcome(m, l, g, ReturnedNone, "none")
    ELSE
      LET c == MergeCollect(g, rank_ids, 1, <<>>)
      IN  IF c.exc # "none" THEN Outcome(m, l, c.g, ReturnedNone, c.exc)
          ELSE
            LET first_taxon == split_rank_uid(rank_ids[1], 0)
                merge_lvl == lowest_assigned_rank_level(first_taxon)
                new_name == name_prefix \o Item(first_taxon, merge_lvl)
                new_rank == SliceTo(first_taxon, merge_lvl) \o <<new_name>>
                new_rank_id == get_rank_uid(new_rank, -1)
                ref == NewRef(l)
                sids == Range(c.all_sid)
            IN  Outcome([sid \in DOMAIN m \cup sids |-> IF sid \in sids THEN ref ELSE m[sid]],
                        Put(l, ref, new_rank),
                        Put(c.g, new_rank_id, c.all_sid),
                        ReturnedStr(new_rank_id), "none")

\* load_taxonomy: the rank names of one line, each stripped (lines 309-314)
StripRanks(ranks) == [i \in DOMAIN ranks |-> StripSpace(ranks[i])]

\* load_taxonomy: the loop over the lines of the file (lines 304-318); a line
\* without a tab has no toks[1]
RECURSIVE LoadLines(_, _, _, _)
LoadLines(pfx, lines, k, o) ==
    IF k > Len(lines) THEN o
    ELSE
      LET line == StripSpace(lines[k])
          toks == Split(line, <<"\t">>)
      IN  IF Len(toks) < 2 THEN [o EXCEPT !.exc = "IndexError"]
          ELSE
            LET sid == pfx \o toks[1]
                ranks == StripRanks(Split(toks[2], <<";">>))
                rank_id == get_rank_uid(ranks, -1)
                ref == NewRef(o.l)
            IN  LoadLines(pfx, lines, k + 1,
                          [o EXCEPT !.m = Put(@, sid, ref),
                                    !.l = Put(@, ref, ranks),
                                    !.g = Put(@, rank_id,
                                              (IF rank_id \in DOMAIN @ THEN @[rank_id] ELSE <<>>)
                                                  \o <<sid>>)])

\* Taxonomy.load_taxonomy(tax_fname): tax_fname names a file that holds the
\* lines tax_fname.lines, or no file (open raises IOError)
load_taxonomy(pfx, m, l, g, tax_fname) ==
    IF ~tax_fname.exists THEN Outcome(m, l, g, ReturnedNone, "IOError")
    ELSE LoadLines(pfx, tax_fname.lines, 1, Outcome(m, l, g, ReturnedNone, "none"))

\* the characters normalize_rank_names and normalize_seq_ids replace
RankInvalidChars == {"[", "]", "(", ")", ",", ";", ":", "'"}
SeqIdInvalidChars == RankInvalidChars \cup {" "}

\* normalize_rank_names: the loop over one list (lines 326-333)
RECURSIVE NormRow(_, _, _)
NormRow(ranks, i, corr_ranks) ==
    IF i >= Len(ranks) THEN [ranks |-> ranks, corr_ranks |-> corr_ranks]
    ELSE IF ranks[i + 1] \in DOMAIN corr_ranks
         THEN NormRow([ranks EXCEPT ![i + 1] = corr_ranks[ranks[i + 1]]], i + 1, corr_ranks)
         ELSE LET new_rank_name == Translate(ranks[i + 1], RankInvalidChars)
              IN  IF new_rank_name # ranks[i + 1]
                  THEN NormRow([ranks EXCEPT ![i + 1] = new_rank_name], i + 1,
                               Put(corr_ranks, ranks[i + 1], new_rank_name))
                  ELSE NormRow(ranks, i + 1, corr_ranks)

\* normalize_rank_names: the loop over the store (line 325), in iteration order
RECURSIVE NormRanksLoop(_, _, _, _, _)
NormRanksLoop(m, l, order, k, corr_ranks) ==
    IF k > Len(order) THEN [l |-> l, corr_ranks |-> corr_ranks]
    ELSE LET r == NormRow(l[m[order[k]]], 1, corr_ranks)
         IN  NormRanksLoop(m, [l EXCEPT ![m[order[k]]] = r.ranks], order, k + 1, r.corr_ranks)

\* Taxonomy.normalize_rank_names(), the store iterated in `order`
normalize_rank_names(m, l, g, order) ==
    LET r == NormRanksLoop(m, l, order, 1, <<>>)
    IN  Outcome(m, r.l, g, ReturnedDict(r.corr_ranks), "none")

\* normalize_seq_ids: the loop over the keys (lines 342-346).  The dict is changed
\* while it is iterated: a rename that adds one key and deletes one keeps its size,
\* and the iterator then reaches the keys in `visit`; a rename onto a key that
\* exists shrinks the dict, and the iterator's next step raises RuntimeError.
RECURSIVE NormIdsLoop(_, _, _, _, _, _)
NormIdsLoop(m, n, order, visit, k, corr_ids) ==
    IF Cardinality(DOMAIN m) # n THEN [m |-> m, corr_ids |-> corr_ids, exc |-> "RuntimeError"]
    ELSE IF k > Len(order) THEN [m |-> m, corr_ids |-> corr_ids, exc |-> "none"]
    ELSE LET old_sid == order[k]
             new_sid == Translate(old_sid, SeqIdInvalidChars)
         IN  IF old_sid \in visit /\ old_sid \in DOMAIN m /\ new_sid # old_sid
             THEN NormIdsLoop(Del(Put(m, new_sid, m[old_sid]), old_sid), n, order, visit,
                              k + 1, Put(corr_ids, old_sid, new_sid))
             ELSE NormIdsLoop(m, n, order, visit, k + 1, corr_ids)

\* the keys the iterator certainly reaches: those up to the first one renamed
SurelyVisited(order) ==
    {order[k] : k \in {j \in DOMAIN order :
        \A h \in 1..(j - 1) : Translate(order[h], SeqIdInvalidChars) = order[h]}}

\* Taxonomy.normalize_seq_ids(), the keys iterated in `order`
normalize_seq_ids(m, l, g, order, visit) ==
    LET r == NormIdsLoop(m, Cardinality(DOMAIN m), order, visit, 1, <<>>)
    IN  Outcome(r.m, l, g, IF r.exc = "none" THEN ReturnedDict(r.corr_ids) ELSE ReturnedNone, r.exc)


\* "%d" % n
RECURSIVE Digits(_)
Digits(n) ==
    LET d == <<"0", "1", "2", "3", "4", "5", "6", "7", "8", "9">>
    IN  IF n < 10 THEN <<d[n + 1]>> ELSE Digits(n \div 10) \o <<d[(n % 10) + 1]>>

\* close_taxonomy_gaps: the loop over one list, from its last level down to level 1
\* (lines 354-359); last_rank is NONE until a name has been seen, and the test
\* `elif last_rank` is false for None and for the empty str
RECURSIVE GapRow(_, _, _, _)
GapRow(ranks, i, last_rank, gap_count) ==
    IF i < 1 THEN ranks
    ELSE IF ranks[i + 1] # EMPTY_RANK THEN GapRow(ranks, i - 1, ranks[i + 1], gap_count)
    ELSE IF last_rank # NONE /\ last_rank # <<>>
         THEN GapRow([ranks EXCEPT ![i + 1] =
                          <<"p", "a", "r", "e", "n", "t">> \o Digits(gap_count + 1) \o <<"_">> \o last_rank],
                     i - 1, last_rank, gap_count + 1)
         ELSE GapRow(ranks, i - 1, last_rank, gap_count)

\* close_taxonomy_gaps: the loop over the store (line 351)
RECURSIVE GapLoop(_, _, _, _)
GapLoop(m, l, order, k) ==
    IF k > Len(order) THEN l
    ELSE LET ref == m[order[k]]
         IN  GapLoop(m, [l EXCEPT ![ref] = GapRow(l[ref], Len(l[ref]) - 1, NONE, 0)], order, k + 1)

\* Taxonomy.close_taxonomy_gaps(), the store iterated in `order`
close_taxonomy_gaps(m, l, g, order) == Outcome(m, GapLoop(m, l, order, 1), g, ReturnedNone, "none")

\* check_for_duplicates: the loop over the levels of one sequence (lines 367-392).
\* d holds the list objects (l), the locals parent_map, dups, old_fixed (a dict:
\* identifier -> its name before the fix) and old_ranks, the exception raised,
\* and, per conflict found, the name it is about (names: not part of the code's
\* records, which carry identifiers only).
RECURSIVE DupRow(_, _, _, _, _, _)
DupRow(pfx, m, autofix, sid, i, d) ==
    LET ranks == d.l[m[sid]]
    IN  IF d.exc # "none" \/ i >= Len(ranks) THEN d
        ELSE IF ranks[i + 1] = EMPTY_RANK THEN d
        ELSE
          LET name == ranks[i + 1]
              parent == ranks[i]
          IN  IF name \notin DOMAIN d.parent_map
              THEN DupRow(pfx, m, autofix, sid, i + 1, [d EXCEPT !.parent_map = Put(@, name, sid)])
              ELSE
                LET old_sid == d.parent_map[name]
                    k == SeqKey(pfx, old_sid)
                IN  IF k \notin DOMAIN m THEN [d EXCEPT !.exc = "KeyError"]
                    ELSE IF i - 1 >= Len(d.l[m[k]]) THEN [d EXCEPT !.exc = "IndexError"]
                    ELSE IF d.l[m[k]][i] = parent THEN DupRow(pfx, m, autofix, sid, i + 1, d)
                    ELSE IF ~autofix
                    THEN DupRow(pfx, m, autofix, sid, i + 1,
                                [d EXCEPT !.dups = Append(@, <<old_sid, lineage_str(Chars(old_sid)),
                                                               sid, lineage_str(Chars(sid))>>),
                                          !.names = Append(@, name)])
                    ELSE
                      LET oref == m[old_sid]
                          fresh == old_sid \notin DOMAIN d.old_fixed
                          done == IF fresh THEN {} ELSE d.old_ranks[old_sid]
                      IN  IF i \notin done /\ i >= Len(d.l[oref])
                          THEN [d EXCEPT !.exc = "IndexError"]
                          ELSE
                            LET l1 == IF i \notin done
                                      THEN [d.l EXCEPT ![oref][i + 1] = @ \o <<"_">> \o d.l[oref][i]]
                                      ELSE d.l
                                l2 == [l1 EXCEPT ![m[sid]][i + 1] = l1[m[sid]][i + 1] \o <<"_">> \o parent]
                            IN  DupRow(pfx, m, autofix, sid, i + 1,
                                       [d EXCEPT !.l = l2,
                                                 !.old_fixed = IF fresh THEN Put(@, old_sid, lineage_str(Chars(old_sid))) ELSE @,
                                                 !.old_ranks = Put(@, old_sid, done \cup {i}),
                                                 !.dups = Append(@, <<old_sid, lineage_str(Chars(old_sid)),
                                                                      sid, lineage_str(Chars(sid)),
                                                                      lineage_str(Chars(sid))>>),
                                                 !.names = Append(@, name)])

\* check_for_duplicates: the loop over the store (line 366)
RECURSIVE DupLoop(_, _, _, _, _, _)
DupLoop(pfx, m, autofix, order, k, d) ==
    IF d.exc # "none" \/ k > Len(order) THEN d
    ELSE DupLoop(pfx, m, autofix, order, k + 1, DupRow(pfx, m, autofix, order[k], 1, d))

\* check_for_duplicates: one record per identifier of old_fixed (lines 394-397),
\* the dict old_fixed iterated in `fixed_order`
OldFixedRecs(old_fixed, fixed_order) ==
    [k \in 1..Len(fixed_order) |->
        LET sid == fixed_order[k]
            orig_name == old_fixed[sid]
        IN  <<sid, orig_name, sid, orig_name, lineage_str(Chars(sid))>>]

\* the run of check_for_duplicates over the store iterated in `order`
DupRun(pfx, m, l, autofix, order) ==
    DupLoop(pfx, m, autofix, order, 1,
            [l |-> l, parent_map |-> <<>>, dups |-> <<>>, old_fixed |-> <<>>,
             old_ranks |-> <<>>, exc |-> "none", names |-> <<>>])

\* the orders in which the dict old_fixed of a run may be iterated (line 394)
OldFixedOrders(pfx, m, l, autofix, order) ==
    LET d == DupRun(pfx, m, l, autofix, order)
    IN  IF autofix /\ d.exc = "none" THEN Perms(DOMAIN d.old_fixed) ELSE {<<>>}

\* a check that renames whether or not autofix is set
check_for_duplicates_always_fix(pfx, m, l, g, autofix, order, fixed_order) ==
    LET d == DupRun(pfx, m, l, TRUE, order)
    IN  IF d.exc # "none" THEN Outcome(m, d.l, g, ReturnedNone, d.exc)
        ELSE [m |-> m, l |-> d.l, g |-> g, ret |-> ReturnedList(d.dups),
              exc |-> "none", names |-> d.names]

\* Taxonomy.check_for_duplicates(autofix), the store iterated in `order` and the
\* dict old_fixed in `fixed_order`; the outcome also carries the conflict names
\* next to the list returned
check_for_duplicates(pfx, m, l, g, autofix, order, fixed_order) ==
    LET d == DupRun(pfx, m, l, autofix, order)
    IN  IF d.exc # "none" THEN Outcome(m, d.l, g, ReturnedNone, d.exc)
        ELSE [m |-> m, l |-> d.l, g |-> g,
              ret |-> ReturnedList(IF autofix THEN d.dups \o OldFixedRecs(d.old_fixed, fixed_order)
                                   ELSE d.dups),
              exc |-> "none", names |-> d.names]

\* check_for_disbalance: the length a list is cut down to (lines 415, 432), and
\* the levels 1.. of a list (range(1, len(ranks)), line 422)
STD_LEVELS == 7
Levels(ranks) == [i \in 1..(Len(ranks) - 1) |-> i]

\* a removal list one level short of what brings the list down to STD_LEVELS
to_remove_one_less(ranks) ==
    LET drop(i) == EndsWith(ranks[i + 1], <<"d", "a", "e">>) \/ EndsWith(ranks[i + 1], <<"n", "e", "a", "e">>)
        keep(i) == ~drop(i) /\ (EndsWith(ranks[i + 1], <<"c", "e", "a", "e">>)
                                \/ EndsWith(ranks[i + 1], <<"a", "l", "e", "s">>))
        rest(i) == ~drop(i) /\ ~keep(i)
    IN  SliceTo(SelectSeq(Levels(ranks), drop) \o SelectSeq(Levels(ranks), rest)
                    \o SelectSeq(Levels(ranks), keep),
                Len(ranks) - STD_LEVELS - 1)

\* check_for_disbalance: the levels removed from one list (lines 419-432)
to_remove(ranks) ==
    LET drop(i) == EndsWith(ranks[i + 1], <<"d", "a", "e">>) \/ EndsWith(ranks[i + 1], <<"n", "e", "a", "e">>)
        keep(i) == ~drop(i) /\ (EndsWith(ranks[i + 1], <<"c", "e", "a", "e">>)
                                \/ EndsWith(ranks[i + 1], <<"a", "l", "e", "s">>))
        rest(i) == ~drop(i) /\ ~keep(i)
        dropq == SelectSeq(Levels(ranks), drop)
        keepq == SelectSeq(Levels(ranks), keep)
        restq == SelectSeq(Levels(ranks), rest)
    IN  SliceTo(dropq \o restq \o keepq, Len(ranks) - STD_LEVELS)

\* check_for_disbalance: the list rebuilt without the removed levels (lines 434-437)
new_ranks(ranks) ==
    LET gone == Range(to_remove(ranks))
        left == SelectSeq([i \in 1..Len(ranks) |-> i - 1], LAMBDA i : i \notin gone)
    IN  [k \in 1..Len(left) |-> ranks[left[k] + 1]]

\* check_for_disbalance: the loop over the store (lines 414-444)
RECURSIVE DisbLoop(_, _, _, _, _, _)
DisbLoop(m, l, autofix, order, k, errs) ==
    IF k > Len(order) THEN [m |-> m, l |-> l, errs |-> errs]
    ELSE
      LET sid == order[k]
          ranks == l[m[sid]]
          n == lineage_str(Chars(sid))
      IN  IF Len(ranks) > STD_LEVELS
          THEN IF autofix
               THEN LET ref == NewRef(l)
                    IN  DisbLoop(Put(m, sid, ref), Put(l, ref, new_ranks(ranks)), autofix, order,
                                 k + 1, Append(errs, <<sid, n, n>>))
               ELSE DisbLoop(m, l, autofix, order, k + 1, Append(errs, <<sid, n>>))
          ELSE DisbLoop(m, l, autofix, order, k + 1, errs)

\* Taxonomy.check_for_disbalance(autofix), the store iterated in `order`
check_for_disbalance(m, l, g, autofix, order) ==
    LET r == DisbLoop(m, l, autofix, order, 1, <<>>)
    IN  Outcome(r.m, r.l, g, ReturnedList(r.errs), "none")


-----------------------------------------------------------------------------
(* the stores and arguments explored *)

MaxSteps == 2    \* calls made on one store

Prefixes == {<<>>, <<"p">>}
SeqIds == {<<"p", " ">>, <<"q">>}
NewSeqIds == {<<"p", "_">>, <<"r">>}

LongPath == << <<"K">>, <<"P">>, <<"C">>, <<"X", "d", "a", "e">>, <<"O", "a", "l", "e", "s">>,
               <<"F", "c", "e", "a", "e">>, <<"G">>, <<"S">> >>
LongerPath == << <<"K">>, <<"P">>, <<"C">>, <<"Y", "n", "e", "a", "e">>, <<"O", "a", "l", "e", "s">>,
                 <<"-">>, <<"F", "c", "e", "a", "e">>, <<"G">>, <<"S">> >>
\* taxonomy files: per line an identifier, a tab, the rank names separated by
\* ";"; one file does not exist, one has a line without a tab
TaxFiles == { [exists |-> FALSE, lines |-> <<>>],
              [exists |-> TRUE, lines |-> << <<"q", "\t", "B", ";", " ", "N", "\n">>,
                                            <<"q", "\t", "A", ";", "-", ";", "C">> >>],
              [exists |-> TRUE, lines |-> << <<"q", "\t", "A", ";", "N", "\n">>,
                                            <<"q", "\n">> >>] }

InitPaths == { << <<"A">>, <<"N">> >>,
               << <<"B">>, <<"N">> >>,
               << <<"A">>, <<"-">>, <<"C">> >>,
               << <<"A">>, <<"-">>, <<>> >>,
               << <<"A">>, <<"(", "N">>, <<"-">> >>,
               LongPath, LongerPath }

\* Taxonomy.__init__ with tax_map: the reverse index built in iteration order
RECURSIVE BuildIndex(_, _, _, _)
BuildIndex(tax_map, order, k, g) ==
    IF k > Len(order) THEN g
    ELSE LET rank_id == get_rank_uid(tax_map[order[k]], -1)
         IN  BuildIndex(tax_map, order, k + 1,
                        Put(g, rank_id, (IF rank_id \in DOMAIN g THEN g[rank_id] ELSE <<>>) \o <<order[k]>>))

\* one list object per identifier
RefOf(ids) == LET e == CHOOSE p \in Perms(ids) : TRUE
              IN  [sid \in ids |-> CHOOSE i \in DOMAIN e : e[i] = sid]

\* TaxTreeBuilder.__init__: no node memoized, nothing counted, no tree built
NewBuilder ==
    /\ tree_nodes = <<>>
    /\ leaf_count = <<>>
    /\ nodes = <<>>
    /\ unpruned = <<>>

InitStore(pfx, tax_map, order) ==
    /\ prefix = pfx
    /\ seq_ranks_map = RefOf(DOMAIN tax_map)
    /\ lists = [r \in Range(RefOf(DOMAIN tax_map)) |->
                   tax_map[CHOOSE sid \in DOMAIN tax_map : RefOf(DOMAIN tax_map)[sid] = r]]
    /\ rank_seqs_map = BuildIndex(tax_map, order, 1, <<>>)
    /\ call = [op |-> "__init__", args |-> [order |-> order]]
    /\ old = [seq_ranks |-> tax_map, rank_seqs |-> <<>>]
    /\ result = [ret |-> ReturnedNone, exc |-> "none", names |-> <<>>]
    /\ steps = 0
    /\ NewBuilder

\* Taxonomy.__init__ with tax_fname: the empty store, then load_taxonomy
InitFile(pfx, tax_fname) ==
    LET o == load_taxonomy(pfx, <<>>, <<>>, <<>>, tax_fname)
    IN  /\ o.exc = "none"
        /\ prefix = pfx
        /\ seq_ranks_map = o.m
        /\ lists = Live(o.m, o.l)
        /\ rank_seqs_map = o.g
        /\ call = [op |-> "__init__", args |-> [tax_fname |-> tax_fname]]
        /\ old = [seq_ranks |-> <<>>, rank_seqs |-> <<>>]
        /\ result = [ret |-> ReturnedNone, exc |-> "none", names |-> <<>>]
        /\ steps = 0
        /\ NewBuilder

Init ==
    \E pfx \in Prefixes :
        \/ \E ids \in SUBSET SeqIds :
               /\ ids # {}
               /\ \E tax_map \in [ids -> InitPaths], order \in Perms(ids) :
                      InitStore(pfx, tax_map, order)
        \/ \E tax_fname \in TaxFiles : InitFile(pfx, tax_fname)

\* a call: the operation's outcome becomes the store, the call and the contents
\* it found are recorded
Do(op, args, o) ==
    /\ steps < MaxSteps
    /\ seq_ranks_map' = o.m
    /\ lists' = Live(o.m, o.l)
    /\ rank_seqs_map' = o.g
    /\ call' = [op |-> op, args |-> args]
    /\ old' = [seq_ranks |-> Forward(seq_ranks_map, lists), rank_seqs |-> rank_seqs_map]
    /\ result' = [ret |-> o.ret, exc |-> o.exc,
                  names |-> IF "names" \in DOMAIN o THEN o.names ELSE <<>>]
    /\ steps' = steps + 1
    /\ UNCHANGED <<prefix, tree_vars>>

Orders == Perms(DOMAIN seq_ranks_map)

RemoveSeq ==
    \E seqid \in DOMAIN seq_ranks_map \cup NewSeqIds :
        Do("remove_seq", [seqid |-> seqid],
           remove_seq(prefix, seq_ranks_map, lists, rank_seqs_map, seqid))

RenameSeq ==
    \E old_seqid \in DOMAIN seq_ranks_map, new_seqid \in NewSeqIds :
        Do("rename_seq", [old_seqid |-> old_seqid, new_seqid |-> new_seqid],
           rename_seq(seq_ranks_map, lists, rank_seqs_map, old_seqid, new_seqid))

MergeRanks ==
    \E name_prefix \in {TAXCLUSTER, <<>>} :
        \E rank_ids \in [{1} -> DOMAIN rank_seqs_map] \cup [{1, 2} -> DOMAIN rank_seqs_map] :
            Do("merge_ranks", [rank_ids |-> rank_ids, name_prefix |-> name_prefix],
               merge_ranks(seq_ranks_map, lists, rank_seqs_map, rank_ids, name_prefix))

NormalizeRankNames ==
    \E order \in Orders :
        Do("normalize_rank_names", [order |-> order],
           normalize_rank_names(seq_ranks_map, lists, rank_seqs_map, order))

NormalizeSeqIds ==
    \E order \in Orders :
        LET sure == SurelyVisited(order)
        IN  \E rest \in SUBSET (DOMAIN seq_ranks_map \ sure) :
                LET visit == sure \cup rest
                IN  Do("normalize_seq_ids", [order |-> order, visit |-> visit],
                       normalize_seq_ids(seq_ranks_map, lists, rank_seqs_map, order, visit))

CloseTaxonomyGaps ==
    \E order \in Orders :
        Do("close_taxonomy_gaps", [order |-> order],
           close_taxonomy_gaps(seq_ranks_map, lists, rank_seqs_map, order))

CheckForDuplicates ==
    \E autofix \in BOOLEAN, order \in Orders :
        \E fixed_order \in OldFixedOrders(prefix, seq_ranks_map, lists, autofix, order) :
            Do("check_for_duplicates",
               [autofix |-> autofix, order |-> order, fixed_order |-> fixed_order],
               check_for_duplicates(prefix, seq_ranks_map, lists, rank_seqs_map, autofix, order,
                                    fixed_order))

LoadTaxonomy ==
    \E tax_fname \in TaxFiles :
        Do("load_taxonomy", [tax_fname |-> tax_fname],
           load_taxonomy(prefix, seq_ranks_map, lists, rank_seqs_map, tax_fname))

CheckForDisbalance ==
    \E autofix \in BOOLEAN, order \in Orders :
        Do("check_for_disbalance", [autofix |-> autofix, order |-> order],
           check_for_disbalance(seq_ranks_map, lists, rank_seqs_map, autofix, order))

Next ==
    \/ RemoveSeq
    \/ RenameSeq
    \/ MergeRanks
    \/ LoadTaxonomy
    \/ NormalizeRankNames
    \/ NormalizeSeqIds
    \/ CloseTaxonomyGaps
    \/ CheckForDuplicates
    \/ CheckForDisbalance

Spec == Init /\ [][Next]_vars


-----------------------------------------------------------------------------
(* properties of the store *)

\* the identifiers a group of the reverse index holds
Group(g, key) == Range(g[key])

\* the lineage keys whose group holds sid
KeysOf(g, sid) == {key \in DOMAIN g : sid \in Group(g, key)}

\* how often sid occurs in the groups of the reverse index
Occurrences(g, sid) ==
    LET RECURSIVE Sum(_)
        Sum(K) == IF K = {} THEN 0
                  ELSE LET key == CHOOSE x \in K : TRUE
                       IN  Cardinality({i \in DOMAIN g[key] : g[key][i] = sid}) + Sum(K \ {key})
    IN  Sum(DOMAIN g)

\* the elements of a rank path up to and including its lowest assigned level
NonEmptyPrefix(ranks) == SliceTo(ranks, lowest_assigned_rank_level(ranks) + 1)

\* C1: in every reachable state rank_seqs_map partitions the identifiers of
\* seq_ranks_map: every identifier of the forward map is in exactly one group,
\* and no group holds an identifier the forward map lacks.
C1_IndexPartitionsIds ==
    /\ \A sid \in DOMAIN seq_ranks_map : Occurrences(rank_seqs_map, sid) = 1
    /\ \A key \in DOMAIN rank_seqs_map : Group(rank_seqs_map, key) \subseteq DOMAIN seq_ranks_map

\* C2: in every reachable state the group that holds an identifier is keyed by
\* get_rank_uid of the identifier's current rank path, so two identifiers share
\* a group exactly when their paths agree up to the lowest assigned level.
C2_GroupKeyedByCurrentPath ==
    LET held == {sid \in DOMAIN seq_ranks_map : KeysOf(rank_seqs_map, sid) # {}}
    IN  /\ \A sid \in held : KeysOf(rank_seqs_map, sid) = {get_rank_uid(Ranks(sid), -1)}
        /\ \A s1 \in held, s2 \in held :
               (KeysOf(rank_seqs_map, s1) \cap KeysOf(rank_seqs_map, s2) # {})
                   <=> (NonEmptyPrefix(Ranks(s1)) = NonEmptyPrefix(Ranks(s2)))

\* the last call was remove_seq(id) with id in the store
RemovedPresent ==
    /\ call.op = "remove_seq"
    /\ call.args.seqid \in DOMAIN old.seq_ranks

\* C3: remove_seq(id) with id in the store removes id from seq_ranks_map and
\* from its group, deletes the group if that empties it, and leaves every other
\* record and group as it was.
C3_RemoveSeqRemoves ==
    RemovedPresent =>
        LET id == call.args.seqid
            gone(key) == Group(old.rank_seqs, key) \subseteq {id}
        IN  /\ Forward(seq_ranks_map, lists) = Del(old.seq_ranks, id)
            /\ DOMAIN rank_seqs_map = {key \in DOMAIN old.rank_seqs : ~gone(key)}
            /\ \A key \in DOMAIN rank_seqs_map :
                   rank_seqs_map[key] = SelectSeq(old.rank_seqs[key], LAMBDA x : x # id)

\* the last call was rename_seq(old, new) with old in the store and new not
RenamedPresent ==
    /\ call.op = "rename_seq"
    /\ call.args.old_seqid \in DOMAIN old.seq_ranks
    /\ call.args.new_seqid \notin DOMAIN old.seq_ranks

\* C4: rename_seq(old, new), old present and new absent, renames in both maps:
\* new maps to the path old had and old is gone from seq_ranks_map; new is in
\* exactly the group old was in and old is in no group.
C4_RenameSeqRenamesBoth ==
    RenamedPresent =>
        LET o == call.args.old_seqid
            n == call.args.new_seqid
        IN  /\ n \in DOMAIN seq_ranks_map
            /\ Ranks(n) = old.seq_ranks[o]
            /\ o \notin DOMAIN seq_ranks_map
            /\ KeysOf(rank_seqs_map, n) = KeysOf(old.rank_seqs, o)
            /\ KeysOf(rank_seqs_map, o) = {}


\* the last call was merge_ranks with two distinct keys of the reverse index
MergedTwo ==
    /\ call.op = "merge_ranks"
    /\ Len(call.args.rank_ids) = 2
    /\ call.args.rank_ids[1] # call.args.rank_ids[2]
    /\ call.args.rank_ids[1] \in DOMAIN old.rank_seqs
    /\ call.args.rank_ids[2] \in DOMAIN old.rank_seqs

\* merge_ranks returned a key whose group holds exactly the a+b identifiers of
\* the two groups, all of them mapped to one merged path named by that key
MergedGroup ==
    LET k1 == call.args.rank_ids[1]
        k2 == call.args.rank_ids[2]
    IN  /\ result.exc = "none"
        /\ result.ret.str \in DOMAIN rank_seqs_map
        /\ Len(rank_seqs_map[result.ret.str]) = Len(old.rank_seqs[k1]) + Len(old.rank_seqs[k2])
        /\ Group(rank_seqs_map, result.ret.str) = Group(old.rank_seqs, k1) \cup Group(old.rank_seqs, k2)
        /\ \A sid \in Group(rank_seqs_map, result.ret.str) :
               /\ sid \in DOMAIN seq_ranks_map
               /\ get_rank_uid(Ranks(sid), -1) = result.ret.str
               /\ \A other \in Group(rank_seqs_map, result.ret.str) : Ranks(other) = Ranks(sid)

\* C5 as stated: the merged key is new, and neither of the two original keys
\* remains a key of the reverse index.
C5_MergeDropsBothKeys ==
    MergedTwo =>
        /\ MergedGroup
        /\ result.ret.str \notin DOMAIN old.rank_seqs
        /\ call.args.rank_ids[1] \notin DOMAIN rank_seqs_map
        /\ call.args.rank_ids[2] \notin DOMAIN rank_seqs_map

\* C5, amended: merge_ranks on two distinct keys with groups of sizes a and b
\* returns one key whose group holds exactly those a+b identifiers, each mapped
\* to the same merged path; an original key remains a key of the reverse index
\* only if it is the returned key itself (the merged name equals the old name).
C5_MergeYieldsOneGroup ==
    MergedTwo =>
        /\ MergedGroup
        /\ \A i \in {1, 2} : call.args.rank_ids[i] # result.ret.str
                                 => call.args.rank_ids[i] \notin DOMAIN rank_seqs_map

\* two groups of different keys were merged under a new name
C5_Witness ==
    /\ MergedTwo
    /\ result.ret.str \notin DOMAIN old.rank_seqs
    /\ Len(rank_seqs_map[result.ret.str]) = 2

\* C7: after close_taxonomy_gaps no rank path holds the empty marker strictly
\* between level 0 and its lowest assigned level.
C7_NoGapsAfterClosing ==
    call.op = "close_taxonomy_gaps" =>
        \A sid \in DOMAIN seq_ranks_map :
            \A i \in 1..(lowest_assigned_rank_level(Ranks(sid)) - 1) :
                Item(Ranks(sid), i) # EMPTY_RANK

\* the last call was check_for_disbalance(autofix=True)
DisbalanceFixed == call.op = "check_for_disbalance" /\ call.args.autofix

\* C8: after check_for_disbalance(autofix=True) every path that had more than
\* 7 entries has exactly 7, and every path that had 7 or fewer is unchanged.
C8_DisbalanceFixTo7 ==
    DisbalanceFixed =>
        /\ DOMAIN seq_ranks_map = DOMAIN old.seq_ranks
        /\ \A sid \in DOMAIN old.seq_ranks :
               IF Len(old.seq_ranks[sid]) > 7
               THEN Len(Ranks(sid)) = 7
               ELSE Ranks(sid) = old.seq_ranks[sid]

\* the fix shortened a path of 9 entries and left a shorter one alone
C8_Witness ==
    /\ DisbalanceFixed
    /\ \E sid \in DOMAIN old.seq_ranks : Len(old.seq_ranks[sid]) = 9 /\ Len(Ranks(sid)) = 7
    /\ \E sid \in DOMAIN old.seq_ranks : Len(old.seq_ranks[sid]) < 7

\* the last call was check_for_duplicates or check_for_disbalance without autofix
DetectionOnly ==
    /\ call.op \in {"check_for_duplicates", "check_for_disbalance"}
    /\ ~call.args.autofix

\* C10: check_for_duplicates(autofix=False) and check_for_disbalance(autofix=False)
\* change nothing: every rank path and every group is what it was before the call.
C10_DetectionChangesNothing ==
    DetectionOnly =>
        /\ Forward(seq_ranks_map, lists) = old.seq_ranks
        /\ rank_seqs_map = old.rank_seqs

\* a detection run that reported a conflict
C10_Witness ==
    /\ DetectionOnly
    /\ call.op = "check_for_duplicates"
    /\ result.exc = "none"
    /\ Len(result.ret.list) > 0


-----------------------------------------------------------------------------
(* get_rank_uid and split_rank_uid on rank paths of their own *)

MaxUidLen == 3   \* length of the rank paths keyed and split

UidNames == {<<"-">>, <<>>, <<"A">>, <<"B", "@">>, <<"C", "@", "D">>, <<"@", "E">>}
UidPaths == UNION {[1..n -> UidNames] : n \in 1..MaxUidLen}

\* no store: the call holds the rank path the functions are applied to
InitUid ==
    \E ranks \in UidPaths :
        /\ prefix = <<>>
        /\ seq_ranks_map = <<>>
        /\ lists = <<>>
        /\ rank_seqs_map = <<>>
        /\ call = [op |-> "ranks", args |-> [ranks |-> ranks]]
        /\ old = [seq_ranks |-> <<>>, rank_seqs |-> <<>>]
        /\ result = [ret |-> ReturnedNone, exc |-> "none", names |-> <<>>]
        /\ steps = 0
        /\ NewBuilder

GetRankUid ==
    /\ call.op = "ranks"
    /\ call' = [op |-> "get_rank_uid", args |-> call.args]
    /\ result' = [ret |-> ReturnedStr(get_rank_uid(call.args.ranks, -1)), exc |-> "none", names |-> <<>>]
    /\ steps' = steps + 1
    /\ UNCHANGED <<prefix, seq_ranks_map, lists, rank_seqs_map, old, tree_vars>>

SplitRankUid ==
    /\ call.op = "get_rank_uid"
    /\ call' = [op |-> "split_rank_uid", args |-> [ranks |-> call.args.ranks, rank_uid |-> result.ret.str]]
    /\ result' = [ret |-> ReturnedList(split_rank_uid(result.ret.str, 0)), exc |-> "none",
                  names |-> <<>>]
    /\ steps' = steps + 1
    /\ UNCHANGED <<prefix, seq_ranks_map, lists, rank_seqs_map, old, tree_vars>>

NextUid == GetRankUid \/ SplitRankUid

SpecUid == InitUid /\ [][NextUid]_vars

\* no name of the path contains the key delimiter
NoDelimiter(ranks) == \A i \in DOMAIN ranks : Find(ranks[i], RANK_UID_DELIM) = 0

\* no name that the key joins to a following one, i.e. none above the lowest
\* assigned level, ends with the delimiter's character
NoDelimiterCharBeforeJoin(ranks) ==
    \A i \in 1..lowest_assigned_rank_level(ranks) :
        Len(ranks[i]) > 0 => ranks[i][Len(ranks[i])] # "@"

\* C6 as stated: for every rank path whose names do not contain the delimiter,
\* split_rank_uid(get_rank_uid(p)) is exactly the non-empty prefix of p.
C6_SplitRestoresPrefix ==
    (call.op = "split_rank_uid" /\ NoDelimiter(call.args.ranks))
        => result.ret.list = NonEmptyPrefix(call.args.ranks)

\* C6, amended: for every rank path with at least one assigned level whose
\* names do not contain the delimiter and in which no name above the lowest
\* assigned level ends with its character "@",
\* split_rank_uid(get_rank_uid(p)) is exactly the non-empty prefix of p.
C6_SplitRestoresAssignedPrefix ==
    (/\ call.op = "split_rank_uid"
     /\ NoDelimiter(call.args.ranks)
     /\ NoDelimiterCharBeforeJoin(call.args.ranks)
     /\ lowest_assigned_rank_level(call.args.ranks) >= 0)
        => result.ret.list = NonEmptyPrefix(call.args.ranks)

\* a path whose first name begins with "@" and whose lowest assigned name ends
\* with it, an empty marker between them, was keyed and split
C6_Witness ==
    /\ call.op = "split_rank_uid"
    /\ NoDelimiterCharBeforeJoin(call.args.ranks)
    /\ call.args.ranks = << <<"@", "E">>, EMPTY_RANK, <<"B", "@">> >>
    /\ result.ret.list = << <<"@", "E">>, EMPTY_RANK, <<"B", "@">> >>

-----------------------------------------------------------------------------
(* check_for_duplicates on stores of three sequences *)

DupSeqIds == {<<"a">>, <<"b">>, <<"c">>}
DupPaths == { << <<"A">>, <<"B">> >>,
              << <<"C">>, <<"B">> >>,
              << <<"A">>, <<"C">>, <<"B">> >>,
              << <<"A">>, <<"B">>, <<"X">> >>,
              << <<"C">>, <<"D">>, <<"Y">> >>,
              << <<"E">>, <<"D">>, <<"X">> >> }

InitDup == \E tax_map \in [DupSeqIds -> DupPaths], order \in Perms(DupSeqIds) :
               InitStore(<<>>, tax_map, order)

NextDup == CheckForDuplicates

SpecDup == InitDup /\ [][NextDup]_vars

\* the last call was check_for_duplicates(autofix=True) and it returned
DuplicatesFixed ==
    /\ call.op = "check_for_duplicates"
    /\ call.args.autofix
    /\ result.exc = "none"

\* the names for which detection, iterating the store in `order`, reports a conflict
Detected(order) == Range(DupRun(prefix, seq_ranks_map, lists, FALSE, order).names)

\* C9: after check_for_duplicates(autofix=True), detection run again on the
\* store reports no conflict for any name the autofix run disambiguated.
C9_NoConflictLeftForFixedNames ==
    DuplicatesFixed => \A order \in Orders : Detected(order) \cap Range(result.names) = {}

-----------------------------------------------------------------------------
(* the consistency passes on any store *)

\* C11: check_for_duplicates and check_for_disbalance, report-only and with
\* autofix, complete on every store (paths of any lengths, equal or different
\* between sequences, any sequence-id prefix): no call of either raises.
C11_PassesNeverRaise ==
    call.op \in {"check_for_duplicates", "check_for_disbalance"} => result.exc = "none"

\* the rank paths of s1 and s2 hold the same name at the same level, at least
\* 1, under different parent names
SamePositionConflict(seq_ranks, s1, s2) ==
    \E i \in 1..(Min(Len(seq_ranks[s1]), Len(seq_ranks[s2])) - 1) :
        /\ Item(seq_ranks[s1], i) = Item(seq_ranks[s2], i)
        /\ Item(seq_ranks[s1], i) # EMPTY_RANK
        /\ Item(seq_ranks[s1], i - 1) # Item(seq_ranks[s2], i - 1)

\* C14: check_for_duplicates records a conflict between two sequences only
\* when they hold the same name at the same rank position under different
\* parents; a name that occurs at different positions is not reported and,
\* with autofix, causes no renaming.
C14_ConflictsAtSamePositionOnly ==
    (call.op = "check_for_duplicates" /\ result.exc = "none") =>
        /\ ~call.args.autofix =>
               \A k \in DOMAIN result.ret.list :
                   SamePositionConflict(old.seq_ranks, result.ret.list[k][1], result.ret.list[k][3])
        /\ (\A s1 \in DOMAIN old.seq_ranks, s2 \in DOMAIN old.seq_ranks :
                ~SamePositionConflict(old.seq_ranks, s1, s2))
               => Forward(seq_ranks_map, lists) = old.seq_ranks

-----------------------------------------------------------------------------
(* lineage_str on rank paths of their own *)

LineageStr ==
    /\ call.op = "ranks"
    /\ call' = [op |-> "lineage_str", args |-> call.args]
    /\ result' = [ret |-> ReturnedStr(lineage_str(call.args.ranks)), exc |-> "none", names |-> <<>>]
    /\ steps' = steps + 1
    /\ UNCHANGED <<prefix, seq_ranks_map, lists, rank_seqs_map, old, tree_vars>>

NextFmt == LineageStr

SpecFmt == InitUid /\ [][NextFmt]_vars

\* the entries of a rank path that are neither the empty marker nor the empty string
NonEmptyEntries(ranks) == SelectSeq(ranks, LAMBDA r : r # EMPTY_RANK /\ r # <<>>)

\* C20: lineage_str(ranks) is exactly the non-empty entries of ranks joined
\* with ";", so the result holds no empty-rank marker, trailing or interior;
\* the list passed in is not modified.
C20_LineageStrJoinsNonEmpty ==
    call.op = "lineage_str" =>
        /\ result.ret.str = Join(<<";">>, NonEmptyEntries(call.args.ranks))
        /\ \A k \in DOMAIN Split(result.ret.str, <<";">>) :
               Split(result.ret.str, <<";">>)[k] # EMPTY_RANK

-----------------------------------------------------------------------------
(* TaxCode: the level of a rank name under a nomenclature code *)

\* A table maps a level to the pair (suffix, exact_match) as written in the
\* source: a parenthesised string is a str, only a parenthesised list is a tuple.
BAC_TAX_CODE ==
    (1 :> <<[tuple |-> <<>>], [tuple |-> <<<<"b", "a", "c", "t", "e", "r", "i", "a">>, <<"a", "r", "c", "h", "a", "e", "a">>>>]>> @@
     2 :> <<[tuple |-> <<>>], [tuple |-> <<>>]>> @@
     4 :> <<[tuple |-> <<>>], [tuple |-> <<>>]>> @@
     5 :> <<[str |-> <<"i", "d", "a", "e">>], [tuple |-> <<>>]>> @@
     7 :> <<[str |-> <<"a", "l", "e", "s">>], [tuple |-> <<>>]>> @@
     8 :> <<[str |-> <<"i", "n", "e", "a", "e">>], [tuple |-> <<>>]>> @@
     12 :> <<[str |-> <<"a", "c", "e", "a", "e">>], [tuple |-> <<>>]>> @@
     13 :> <<[str |-> <<"o", "i", "d", "e", "a", "e">>], [tuple |-> <<>>]>> @@
     18 :> <<[tuple |-> <<>>], [tuple |-> <<>>]>> @@
     19 :> <<[tuple |-> <<>>], [tuple |-> <<>>]>> @@
     20 :> <<[tuple |-> <<>>], [tuple |-> <<>>]>> @@
     21 :> <<[tuple |-> <<>>], [tuple |-> <<>>]>> @@
     22 :> <<[tuple |-> <<>>], [tuple |-> <<>>]>>)

BOT_TAX_CODE ==
    (1 :> <<[tuple |-> <<>>], [tuple |-> <<<<"p", "l", "a", "n", "t", "a", "e">>, <<"a", "l", "g", "a", "e">>, <<"f", "u", "n", "g", "i">>>>]>> @@
     2 :> <<[tuple |-> <<<<"p", "h", "y", "t", "a">>, <<"p", "h", "y", "c", "o", "t", "a">>, <<"m", "y", "c", "o", "t", "a">>>>], [tuple |-> <<>>]>> @@
     3 :> <<[tuple |-> <<<<"p", "h", "y", "t", "i", "n", "a">>, <<"p", "h", "y", "c", "o", "t", "i", "n", "a">>, <<"m", "y", "c", "o", "t", "i", "n", "a">>>>], [tuple |-> <<>>]>> @@
     4 :> <<[tuple |-> <<<<"o", "p", "s", "i", "d", "a">>, <<"p", "h", "y", "c", "e", "a", "e">>, <<"m", "y", "c", "e", "t", "e", "s">>>>], [tuple |-> <<>>]>> @@
     5 :> <<[tuple |-> <<<<"i", "d", "a", "e">>, <<"p", "h", "y", "c", "i", "d", "a", "e">>, <<"m", "y", "c", "e", "t", "i", "d", "a", "e">>>>], [tuple |-> <<>>]>> @@
     6 :> <<[str |-> <<"a", "n", "a", "e">>], [tuple |-> <<>>]>> @@
     7 :> <<[str |-> <<"a", "l", "e", "s">>], [tuple |-> <<>>]>> @@
     8 :> <<[str |-> <<"i", "n", "e", "a", "e">>], [tuple |-> <<>>]>> @@
     9 :> <<[str |-> <<"a", "r", "i", "a">>], [tuple |-> <<>>]>> @@
     10 :> <<[str |-> <<"a", "c", "e", "a">>], [tuple |-> <<>>]>> @@
     12 :> <<[str |-> <<"a", "c", "e", "a", "e">>], [tuple |-> <<>>]>> @@
     13 :> <<[str |-> <<"o", "i", "d", "e", "a", "e">>], [tuple |-> <<>>]>> @@
     15 :> <<[str |-> <<"e", "a", "e">>], [tuple |-> <<>>]>> @@
     16 :> <<[str |-> <<"i", "n", "a", "e">>], [tuple |-> <<>>]>> @@
     18 :> <<[tuple |-> <<>>], [tuple |-> <<>>]>> @@
     19 :> <<[tuple |-> <<>>], [tuple |-> <<>>]>> @@
     20 :> <<[tuple |-> <<>>], [tuple |-> <<>>]>> @@
     21 :> <<[tuple |-> <<>>], [tuple |-> <<>>]>> @@
     22 :> <<[tuple |-> <<>>], [tuple |-> <<>>]>>)

ZOO_TAX_CODE ==
    (1 :> <<[tuple |-> <<>>], [str |-> <<"a", "n", "i", "m", "a", "l", "i", "a">>]>> @@
     2 :> <<[tuple |-> <<>>], [tuple |-> <<<<"c", "h", "o", "r", "d", "a", "t", "a">>, <<"a", "r", "t", "h", "r", "o", "p", "o", "d", "a">>, <<"m", "o", "l", "l", "u", "s", "c", "a">>, <<"n", "e", "m", "a", "t", "o", "d", "a">>>>]>> @@
     3 :> <<[tuple |-> <<>>], [tuple |-> <<<<"v", "e", "r", "t", "e", "b", "r", "a", "t", "a">>, <<"m", "y", "r", "i", "a", "p", "o", "d", "a">>, <<"c", "r", "u", "s", "t", "a", "c", "e", "a">>, <<"h", "e", "x", "a", "p", "o", "d", "a">>>>]>> @@
     4 :> <<[tuple |-> <<>>], [tuple |-> <<<<"m", "a", "m", "m", "a", "l", "i", "a">>, <<"a", "v", "e", "s">>, <<"r", "e", "p", "t", "i", "l", "i", "a">>, <<"a", "m", "p", "h", "i", "b", "i", "a">>, <<"i", "n", "s", "e", "c", "t", "a">>>>]>> @@
     5 :> <<[tuple |-> <<>>], [tuple |-> <<>>]>> @@
     6 :> <<[tuple |-> <<>>], [tuple |-> <<>>]>> @@
     7 :> <<[tuple |-> <<>>], [tuple |-> <<>>]>> @@
     8 :> <<[tuple |-> <<>>], [tuple |-> <<>>]>> @@
     9 :> <<[tuple |-> <<>>], [tuple |-> <<>>]>> @@
     10 :> <<[str |-> <<"o", "i", "d", "e", "a">>], [tuple |-> <<>>]>> @@
     11 :> <<[str |-> <<"o", "i", "d", "a", "e">>], [tuple |-> <<>>]>> @@
     12 :> <<[str |-> <<"i", "d", "a", "e">>], [tuple |-> <<>>]>> @@
     13 :> <<[str |-> <<"o", "d", "d">>], [tuple |-> <<>>]>> @@
     15 :> <<[str |-> <<"i", "n", "i">>], [tuple |-> <<>>]>> @@
     16 :> <<[str |-> <<"i", "n", "a">>], [tuple |-> <<>>]>> @@
     17 :> <<[tuple |-> <<<<"a", "d">>, <<"i", "t", "i">>>>], [tuple |-> <<>>]>> @@
     18 :> <<[tuple |-> <<>>], [tuple |-> <<>>]>> @@
     19 :> <<[tuple |-> <<>>], [tuple |-> <<>>]>> @@
     20 :> <<[tuple |-> <<>>], [tuple |-> <<>>]>> @@
     21 :> <<[tuple |-> <<>>], [tuple |-> <<>>]>> @@
     22 :> <<[tuple |-> <<>>], [tuple |-> <<>>]>>)

VIR_TAX_CODE ==
    (1 :> <<[tuple |-> <<>>], [str |-> <<"v", "i", "r", "u", "s", "e", "s">>]>> @@
     4 :> <<[tuple |-> <<>>], [tuple |-> <<>>]>> @@
     5 :> <<[str |-> <<"i", "d", "a", "e">>], [tuple |-> <<>>]>> @@
     7 :> <<[str |-> <<"v", "i", "r", "a", "l", "e", "s">>], [tuple |-> <<>>]>> @@
     12 :> <<[str |-> <<"v", "i", "r", "i", "d", "a", "e">>], [tuple |-> <<>>]>> @@
     13 :> <<[str |-> <<"v", "i", "r", "i", "n", "a", "e">>], [tuple |-> <<>>]>> @@
     18 :> <<[str |-> <<"v", "i", "r", "u", "s">>], [tuple |-> <<>>]>> @@
     19 :> <<[str |-> <<" ", "v", "i", "r", "u", "s">>], [tuple |-> <<>>]>> @@
     21 :> <<[tuple |-> <<>>], [tuple |-> <<>>]>> @@
     22 :> <<[tuple |-> <<>>], [tuple |-> <<>>]>>)

TAX_CODE_MAP ==
    [tax_code_name \in {"bac", "bot", "zoo", "vir"} |->
        CASE tax_code_name = "bac" -> BAC_TAX_CODE
          [] tax_code_name = "bot" -> BOT_TAX_CODE
          [] tax_code_name = "zoo" -> ZOO_TAX_CODE
          [] tax_code_name = "vir" -> VIR_TAX_CODE]

\* the levels of the standard 7-level taxonomy
STD_RANKS == <<1, 2, 4, 7, 12, 18, 19>>

UpperCase == <<"A", "B", "C", "D", "E", "F", "G", "H", "I", "J", "K", "L", "M",
               "N", "O", "P", "Q", "R", "S", "T", "U", "V", "W", "X", "Y", "Z">>
LowerCase == <<"a", "b", "c", "d", "e", "f", "g", "h", "i", "j", "k", "l", "m",
               "n", "o", "p", "q", "r", "s", "t", "u", "v", "w", "x", "y", "z">>
DigitChars == {"0", "1", "2", "3", "4", "5", "6", "7", "8", "9"}

\* s.lower()
Lower(s) ==
    [i \in 1..Len(s) |->
        IF s[i] \in Range(UpperCase)
        THEN LowerCase[CHOOSE k \in DOMAIN UpperCase : UpperCase[k] = s[i]]
        ELSE s[i]]

\* re.sub("[\W_]+", "", s): only letters and digits are kept
SubNonWord(s) ==
    SelectSeq(s, LAMBDA c : c \in Range(UpperCase) \cup Range(LowerCase) \cup DigitChars)

\* s.endswith(suffix), suffix a str or a tuple of str
EndsWithAny(s, suffix) ==
    IF "str" \in DOMAIN suffix THEN EndsWith(s, suffix.str)
    ELSE \E k \in DOMAIN suffix.tuple : EndsWith(s, suffix.tuple[k])

\* s in exact_match: membership in a tuple, substring of a str
IsIn(s, exact_match) ==
    IF "str" \in DOMAIN exact_match
    THEN \E k \in 0..(Len(exact_match.str) - Len(s)) :
             SubSeq(exact_match.str, k + 1, k + Len(s)) = s
    ELSE \E k \in DOMAIN exact_match.tuple : exact_match.tuple[k] = s

\* sorted(tax_code.keys())
sorted_tax_levels(tax_code) ==
    LET RECURSIVE Sorted(_)
        Sorted(K) == IF K = {} THEN <<>>
                     ELSE LET lo == CHOOSE x \in K : \A y \in K : x <= y
                          IN  <<lo>> \o Sorted(K \ {lo})
    IN  Sorted(DOMAIN tax_code)

\* guess_rank_level: the first level, in ascending order, whose suffix or exact
\* names match rank_name, 0 when there is none (lines 139-143)
RECURSIVE ScanLevels(_, _, _, _)
ScanLevels(tax_code, levels, k, rank_name) ==
    IF k > Len(levels) THEN 0
    ELSE IF EndsWithAny(rank_name, tax_code[levels[k]][1]) \/ IsIn(rank_name, tax_code[levels[k]][2])
    THEN levels[k]
    ELSE ScanLevels(tax_code, levels, k + 1, rank_name)

\* guess_rank_level: the first standard level among levels[i], levels[i+1], ...
\* (0-based i), 0 when there is none (lines 154-159)
RECURSIVE NextStdLevel(_, _)
NextStdLevel(levels, i) ==
    IF i >= Len(levels) THEN 0
    ELSE IF levels[i + 1] \in Range(STD_RANKS) THEN levels[i + 1]
    ELSE NextStdLevel(levels, i + 1)

\* TaxCode.guess_rank_level(ranks, rank_level), 0 <= rank_level < len(ranks)
RECURSIVE guess_rank_level(_, _, _)
guess_rank_level(tax_code, ranks, rank_level) ==
    LET rank_name == SubNonWord(Lower(Item(ranks, rank_level)))
        levels == sorted_tax_levels(tax_code)
        real_level == ScanLevels(tax_code, levels, 1, rank_name)
    IN  IF real_level # 0 THEN real_level
        ELSE IF rank_level = 0 THEN 1
        ELSE LET parent_level == guess_rank_level(tax_code, ranks, rank_level - 1)
             IN  IF parent_level = 0 THEN 0
                 ELSE LET idx == (CHOOSE k \in DOMAIN levels : levels[k] = parent_level) - 1
                      IN  NextStdLevel(levels, idx + 1)

ReturnedInt(n) == [int |-> n]

MaxTaxLen == 2   \* length of the rank paths whose names are all chosen freely

TaxNames == { <<"B", "a", "c", "t", "e", "r", "i", "a">>,
              <<"V", "i", "r", "u", "s", "e", "s">>,
              <<"A", "n", "i">>,
              <<"X", "_", "y">>,
              <<"X", "a", "l", "e", "s">>,
              <<"X", "v", "i", "r", "i", "d", "a", "e">>,
              <<"X", "i", "n", "i">> }

\* nine names no table recognises
DeepPath == [i \in 1..9 |-> <<"X", "_", "y">>]

TaxPaths == UNION {[1..n -> TaxNames] : n \in 1..MaxTaxLen} \cup {DeepPath}

\* no store: the call holds the code and the arguments of guess_rank_level
InitTax ==
    \E tax_code_name \in DOMAIN TAX_CODE_MAP, ranks \in TaxPaths :
        \E rank_level \in 0..(Len(ranks) - 1) :
            /\ prefix = <<>>
            /\ seq_ranks_map = <<>>
            /\ lists = <<>>
            /\ rank_seqs_map = <<>>
            /\ call = [op |-> "TaxCode", args |-> [tax_code_name |-> tax_code_name,
                                                  ranks |-> ranks, rank_level |-> rank_level]]
            /\ old = [seq_ranks |-> <<>>, rank_seqs |-> <<>>]
            /\ result = [ret |-> ReturnedNone, exc |-> "none", names |-> <<>>]
            /\ steps = 0
            /\ NewBuilder

GuessRankLevel ==
    /\ call.op = "TaxCode"
    /\ call' = [op |-> "guess_rank_level", args |-> call.args]
    /\ result' = [ret |-> ReturnedInt(guess_rank_level(TAX_CODE_MAP[call.args.tax_code_name],
                                                       call.args.ranks, call.args.rank_level)),
                  exc |-> "none", names |-> <<>>]
    /\ steps' = steps + 1
    /\ UNCHANGED <<prefix, seq_ranks_map, lists, rank_seqs_map, old, tree_vars>>

NextTax == GuessRankLevel

SpecTax == InitTax /\ [][NextTax]_vars

\* the normalised name ends with a suffix or equals an exact name that the
\* table of the code lists at some level
Recognised(tax_code, name) ==
    LET n == SubNonWord(Lower(name))
        listed(x) == IF "str" \in DOMAIN x THEN {x.str} ELSE Range(x.tuple)
    IN  \E lvl \in DOMAIN tax_code :
            \/ \E suf \in listed(tax_code[lvl][1]) : EndsWith(n, suf)
            \/ n \in listed(tax_code[lvl][2])

\* the standard levels above P
StdAbove(P) == {lvl \in Range(STD_RANKS) : lvl > P}

\* C19: for every code, when the name at a level above 0 matches no suffix and
\* no exact name and the parent level resolves to P other than 0,
\* guess_rank_level returns the smallest standard level (1, 2, 4, 7, 12, 18,
\* 19) greater than P, and 0 only when no standard level is greater than P.
C19_FallbackIsNextStandardLevel ==
    (/\ call.op = "guess_rank_level"
     /\ call.args.rank_level > 0
     /\ ~Recognised(TAX_CODE_MAP[call.args.tax_code_name],
                    Item(call.args.ranks, call.args.rank_level)))
        => LET P == guess_rank_level(TAX_CODE_MAP[call.args.tax_code_name],
                                     call.args.ranks, call.args.rank_level - 1)
           IN  P # 0 =>
                   IF StdAbove(P) = {} THEN result.ret.int = 0
                   ELSE /\ result.ret.int \in StdAbove(P)
                        /\ \A lvl \in StdAbove(P) : result.ret.int <= lvl

-----------------------------------------------------------------------------
(* TaxTreeBuilder: the tree of the store's lineages *)

ROOT_LABEL == <<"<", "<", "r", "o", "o", "t", ">", ">">>

\* Tree() followed by add_feature("name", name): a new node object with no
\* parent (up = 0 stands for None) and no children, at the next free reference
Tree(ns, name) == Append(ns, [name |-> name, up |-> 0, children |-> <<>>])

\* parent.add_child(child) of the tree library: child is appended to the
\* children of parent and parent becomes its up
add_child(ns, parent, child) ==
    [ns EXCEPT ![parent].children = Append(@, child), ![child].up = parent]

\* parent.remove_child(child) of the tree library: the first occurrence of
\* child leaves the children of parent and child has no up any more
remove_child(ns, parent, child) ==
    LET ch == ns[parent].children
        k == CHOOSE i \in DOMAIN ch : ch[i] = child /\ \A j \in 1..(i - 1) : ch[j] # child
    IN  [ns EXCEPT ![parent].children = SubSeq(ch, 1, k - 1) \o SubSeq(ch, k + 1, Len(ch)),
                   ![child].up = 0]

\* for ch in self.children: parent.add_child(ch)
RECURSIVE AddChildren(_, _, _, _)
AddChildren(ns, parent, children, k) ==
    IF k > Len(children) THEN ns
    ELSE AddChildren(add_child(ns, parent, children[k]), parent, children, k + 1)

\* node.delete(prevent_nondicotomic) of the tree library: the children of node
\* move to the end of its parent's children and node leaves the parent; then a
\* parent left with fewer than two children is deleted in turn, once.  A node
\* with no parent stays as it is.
RECURSIVE delete(_, _, _)
delete(ns, node, prevent_nondicotomic) ==
    LET parent == ns[node].up
    IN  IF parent = 0 THEN ns
        ELSE LET moved == remove_child(AddChildren(ns, parent, ns[node].children, 1), parent, node)
             IN  IF prevent_nondicotomic /\ Len(moved[parent].children) < 2
                 THEN delete(moved, parent, FALSE)
                 ELSE moved

\* prune_unifu_nodes: the loop over tree.traverse("preorder").  The traversal
\* hands out a node, the loop body runs, and only then the traversal puts the
\* children the node has by now in front of the nodes still to visit.
RECURSIVE PruneLoop(_, _, _)
PruneLoop(ns, node, to_visit) ==
    LET pruned == IF Len(ns[node].children) = 1 THEN delete(ns, node, TRUE) ELSE ns
        rest == pruned[node].children \o to_visit
    IN  IF rest = <<>> THEN pruned ELSE PruneLoop(pruned, Head(rest), Tail(rest))

\* a pass that deletes nothing
prune_unifu_nodes_skip(ns, tree) == ns

\* TaxTreeBuilder.prune_unifu_nodes(tree)
prune_unifu_nodes(ns, tree) == PruneLoop(ns, tree, <<>>)

\* ranks[i] exists
HasIndex(ranks, i) == -Len(ranks) <= i /\ i < Len(ranks)

\* while ranks[parent_level] == EMPTY_RANK: parent_level -= 1; the level the
\* loop ends at, or the IndexError of ranks[parent_level] when it runs off the
\* list
RECURSIVE SkipEmpty(_, _)
SkipEmpty(ranks, parent_level) ==
    IF ~HasIndex(ranks, parent_level) THEN [parent_level |-> parent_level, exc |-> "IndexError"]
    ELSE IF Item(ranks, parent_level) = EMPTY_RANK THEN SkipEmpty(ranks, parent_level - 1)
    ELSE [parent_level |-> parent_level, exc |-> "none"]

\* a node creation that gives a missing ancestor the name of the node below it
RECURSIVE add_tree_node_child_name(_, _, _, _)
add_tree_node_child_name(b, nodeId, ranks, rank_level) ==
    LET s == IF rank_level >= 0 THEN SkipEmpty(ranks, rank_level)
             ELSE [parent_level |-> -1, exc |-> "none"]
        parent_level == s.parent_level
        parentId == IF rank_level >= 0 THEN get_rank_uid(ranks, parent_level) ELSE ROOT_LABEL
        failed(exc) == [tree_nodes |-> b.tree_nodes, nodes |-> b.nodes, node |-> 0, exc |-> exc]
        attach(tn, ns, parentNode) ==
            [tree_nodes |-> tn,
             nodes |-> add_child(Tree(ns, nodeId), parentNode, Len(ns) + 1),
             node |-> Len(ns) + 1,
             exc |-> "none"]
    IN  IF s.exc # "none" THEN failed(s.exc)
        ELSE IF parentId \in DOMAIN b.tree_nodes
        THEN attach(b.tree_nodes, b.nodes, b.tree_nodes[parentId])
        ELSE IF rank_level < 0 THEN failed("RuntimeError")
        ELSE LET r == add_tree_node_child_name(b, nodeId, ranks, parent_level - 1)
             IN  IF r.exc # "none" THEN failed(r.exc)
                 ELSE attach(Put(r.tree_nodes, parentId, r.node), r.nodes, r.node)

\* TaxTreeBuilder.add_tree_node(tree, nodeId, ranks, rank_level), which never
\* uses tree; b holds tree_nodes and the node objects, the outcome also the new
\* node.  Every loop over the levels runs before the first node is made, so a call
\* that raises changes nothing.  Without a root in tree_nodes the call for the
\* root label calls itself without end (RuntimeError: recursion depth).
RECURSIVE add_tree_node(_, _, _, _)
add_tree_node(b, nodeId, ranks, rank_level) ==
    LET s == IF rank_level >= 0 THEN SkipEmpty(ranks, rank_level)
             ELSE [parent_level |-> -1, exc |-> "none"]
        parent_level == s.parent_level
        parentId == IF rank_level >= 0 THEN get_rank_uid(ranks, parent_level) ELSE ROOT_LABEL
        failed(exc) == [tree_nodes |-> b.tree_nodes, nodes |-> b.nodes, node |-> 0, exc |-> exc]
        attach(tn, ns, parentNode) ==
            [tree_nodes |-> tn,
             nodes |-> add_child(Tree(ns, nodeId), parentNode, Len(ns) + 1),
             node |-> Len(ns) + 1,
             exc |-> "none"]
    IN  IF s.exc # "none" THEN failed(s.exc)
        ELSE IF parentId \in DOMAIN b.tree_nodes
        THEN attach(b.tree_nodes, b.nodes, b.tree_nodes[parentId])
        ELSE IF rank_level < 0 THEN failed("RuntimeError")
        ELSE LET r == add_tree_node(b, parentId, ranks, parent_level - 1)
             IN  IF r.exc # "none" THEN failed(r.exc)
                 ELSE attach(Put(r.tree_nodes, parentId, r.node), r.nodes, r.node)

\* for (rank_level, rank_name) in clades: if ranks[rank_level] == rank_name: break
RECURSIVE CladeScan(_, _, _)
CladeScan(ranks, clades, k) ==
    IF k > Len(clades) THEN "none"
    ELSE IF ~HasIndex(ranks, clades[k][1]) THEN "IndexError"
    ELSE IF Item(ranks, clades[k][1]) = clades[k][2] THEN "match"
    ELSE CladeScan(ranks, clades, k + 1)

\* build: the quota test (lines 531-537)
OverQuota(b, parent_name, parent_level, tax_seq_level, max_seqs_per_leaf) ==
    /\ parent_name \in DOMAIN b.tree_nodes
    /\ parent_level = tax_seq_level - 1
    /\ parent_name \in DOMAIN b.leaf_count
    /\ b.leaf_count[parent_name] >= max_seqs_per_leaf

\* a filter that never looks at the ignore list
Ignored_none(ranks, clades_to_ignore) == "none"

\* build: the check against the ignore list (lines 517-520)
Ignored(ranks, clades_to_ignore) == CladeScan(ranks, clades_to_ignore, 1)

\* build: the body of the loop over the store for one sequence (lines 495-544);
\* b holds tree_nodes, leaf_count, the node objects, seq_ids and the exception
BuildRow(b, sid, ranks, a) ==
    IF ~HasIndex(ranks, a.min_rank) THEN [b EXCEPT !.exc = "IndexError"]
    ELSE IF Item(ranks, a.min_rank) = EMPTY_RANK THEN b
    ELSE
      LET inc == IF Len(a.clades_to_include) > 0 THEN CladeScan(ranks, a.clades_to_include, 1)
                 ELSE "match"
          ign == IF inc = "match" THEN Ignored(ranks, a.clades_to_ignore) ELSE "none"
      IN  IF inc = "IndexError" \/ ign = "IndexError" THEN [b EXCEPT !.exc = "IndexError"]
          ELSE IF inc # "match" \/ ign = "match" THEN b
          ELSE
            LET tax_seq_level == Len(ranks)
                s == SkipEmpty(ranks, tax_seq_level - 1)
                parent_level == s.parent_level
                parent_name == get_rank_uid(ranks, parent_level)
            IN  IF s.exc # "none" THEN [b EXCEPT !.exc = s.exc]
                ELSE IF OverQuota(b, parent_name, parent_level, tax_seq_level,
                                  a.max_seqs_per_leaf)
                THEN b
                ELSE
                  LET r == add_tree_node([tree_nodes |-> b.tree_nodes, nodes |-> b.nodes],
                                         sid, ranks, parent_level)
                      n == IF parent_name \in DOMAIN b.leaf_count THEN b.leaf_count[parent_name]
                           ELSE 0
                  IN  [tree_nodes |-> r.tree_nodes,
                       leaf_count |-> Put(b.leaf_count, parent_name, n + 1),
                       nodes |-> r.nodes,
                       seq_ids |-> IF r.exc = "none" THEN Append(b.seq_ids, sid) ELSE b.seq_ids,
                       exc |-> r.exc]

\* build: the loop over taxonomy.iteritems() (line 494)
RECURSIVE BuildLoop(_, _, _, _, _, _)
BuildLoop(m, l, order, k, b, a) ==
    IF b.exc # "none" \/ k > Len(order) THEN b
    ELSE BuildLoop(m, l, order, k + 1, BuildRow(b, order[k], l[m[order[k]]], a), a)

ReturnedTuple(t) == [tuple |-> t]

\* TaxTreeBuilder.build(min_rank, max_seqs_per_leaf, clades_to_include,
\* clades_to_ignore), the arguments in a and the store iterated in `order`; tn,
\* lc and ns are tree_nodes, leaf_count and the node objects it finds
build(m, l, tn, lc, ns, order, a) ==
    LET t0 == Len(ns) + 1
        b == BuildLoop(m, l, order, 1,
                       [tree_nodes |-> Put(tn, ROOT_LABEL, t0),
                        leaf_count |-> Put(lc, ROOT_LABEL, 0),
                        nodes |-> Tree(ns, ROOT_LABEL),
                        seq_ids |-> <<>>,
                        exc |-> "none"], a)
    IN  IF b.exc # "none"
        THEN [tree_nodes |-> b.tree_nodes, leaf_count |-> b.leaf_count, nodes |-> b.nodes,
              unpruned |-> <<>>, ret |-> ReturnedNone, exc |-> b.exc]
        ELSE [tree_nodes |-> b.tree_nodes, leaf_count |-> b.leaf_count,
              nodes |-> prune_unifu_nodes(b.nodes, t0),
              unpruned |-> b.nodes, ret |-> ReturnedTuple(<<t0, b.seq_ids>>), exc |-> "none"]

TreeSeqIds == {<<"a">>, <<"b">>, <<"c">>}
TreePaths == { << <<"A">> >>,
               << <<"A">>, <<"B">> >>,
               << <<"A">>, <<"C">> >>,
               << <<"A">>, <<"-">>, <<"C">> >>,
               << <<"-">>, <<"B">> >>,
               << <<"A">>, <<"B">>, <<"-">> >> }

UNLIMITED == 1000000000   \* the default of max_seqs_per_leaf, 1e9

MinRanks == {0, 1}
Quotas == {0, 1, 2, UNLIMITED}
IncludeLists == {<<>>, << <<0, <<"A">> >> >>, << <<1, <<"C">> >>, <<1, <<"B">> >> >>}
IgnoreLists == {<<>>, << <<1, <<"B">> >> >>}

\* the arguments of a call of build, and the order in which the store is iterated
BuildArgs(order) ==
    [min_rank : MinRanks, max_seqs_per_leaf : Quotas, clades_to_include : IncludeLists,
     clades_to_ignore : IgnoreLists, order : {order}]

\* a store of three sequences and a builder made for it
InitTree == \E tax_map \in [TreeSeqIds -> TreePaths], order \in Perms(TreeSeqIds) :
                InitStore(<<>>, tax_map, order)

\* the arguments of the last call of build on the builder; before the first,
\* the order in which the store is iterated alone
LastBuild == IF call.op \in {"__init__", "build"} THEN call.args ELSE call.last_build

\* a call of build.  The store is not changed between construction and the
\* calls, so every call iterates it in the same order; a call after the first
\* is made with the arguments of the first.  The record of the call tells
\* whether the call before it was a call of build too (again).
Build ==
    /\ steps < MaxSteps
    /\ \E a \in (IF "min_rank" \in DOMAIN LastBuild THEN {LastBuild}
                 ELSE BuildArgs(LastBuild.order)) :
           LET o == build(seq_ranks_map, lists, tree_nodes, leaf_count, nodes, a.order, a)
           IN  /\ tree_nodes' = o.tree_nodes
               /\ leaf_count' = o.leaf_count
               /\ nodes' = o.nodes
               /\ unpruned' = o.unpruned
               /\ call' = [op |-> "build", args |-> a, again |-> call.op = "build"]
               /\ result' = [ret |-> o.ret, exc |-> o.exc, names |-> <<>>]
    /\ old' = [seq_ranks |-> Forward(seq_ranks_map, lists), rank_seqs |-> rank_seqs_map]
    /\ steps' = steps + 1
    /\ UNCHANGED <<prefix, seq_ranks_map, lists, rank_seqs_map>>

\* the node add_tree_node returns
ReturnedNode(n) == [TreeNode |-> n]

\* the direct calls of add_tree_node explored: a leaf under a clade of its own
\* below A, and a path without any name
NodeIds == {<<"x">>}
NodeRanks == { << <<"A">>, <<"D">> >>,
               << <<"-">>, <<"-">> >> }
NodeLevels == {1}

\* a call of add_tree_node from outside build; its argument tree is never used
AddTreeNode ==
    /\ steps < MaxSteps
    /\ \E nodeId \in NodeIds, ranks \in NodeRanks, rank_level \in NodeLevels :
           LET o == add_tree_node([tree_nodes |-> tree_nodes, nodes |-> nodes],
                                  nodeId, ranks, rank_level)
           IN  /\ tree_nodes' = o.tree_nodes
               /\ nodes' = o.nodes
               /\ call' = [op |-> "add_tree_node",
                           args |-> [nodeId |-> nodeId, ranks |-> ranks, rank_level |-> rank_level],
                           last_build |-> LastBuild]
               /\ result' = [ret |-> IF o.exc = "none" THEN ReturnedNode(o.node) ELSE ReturnedNone,
                             exc |-> o.exc, names |-> <<>>]
    /\ old' = [seq_ranks |-> Forward(seq_ranks_map, lists), rank_seqs |-> rank_seqs_map]
    /\ steps' = steps + 1
    /\ UNCHANGED <<prefix, seq_ranks_map, lists, rank_seqs_map, leaf_count, unpruned>>

\* the trees a builder has made: the nodes that carry the root label
Roots == {n \in DOMAIN nodes : nodes[n].name = ROOT_LABEL}

\* a call of prune_unifu_nodes from outside build, on a tree the builder made
PruneUnifuNodes ==
    /\ steps < MaxSteps
    /\ \E tree \in Roots :
           /\ nodes' = prune_unifu_nodes(nodes, tree)
           /\ call' = [op |-> "prune_unifu_nodes", args |-> [tree |-> tree],
                       last_build |-> LastBuild]
    /\ unpruned' = nodes
    /\ result' = [ret |-> ReturnedNone, exc |-> "none", names |-> <<>>]
    /\ old' = [seq_ranks |-> Forward(seq_ranks_map, lists), rank_seqs |-> rank_seqs_map]
    /\ steps' = steps + 1
    /\ UNCHANGED <<prefix, seq_ranks_map, lists, rank_seqs_map, tree_nodes, leaf_count>>

NextTree ==
    \/ Build
    \/ AddTreeNode
    \/ PruneUnifuNodes

SpecTree == InitTree /\ [][NextTree]_vars

-----------------------------------------------------------------------------
(* properties of the tree *)

\* the last call was build and it returned
Built == call.op = "build" /\ result.exc = "none"

\* the root and the list of identifiers that build returned
ReturnedRoot == result.ret.tuple[1]
ReturnedIds == result.ret.tuple[2]

\* the nodes of the tree under n, n included
RECURSIVE Subtree(_, _)
Subtree(ns, n) == {n} \cup UNION {Subtree(ns, ns[n].children[k]) : k \in DOMAIN ns[n].children}

\* the leaves of the tree under n: its nodes without children
Leaves(ns, n) == {x \in Subtree(ns, n) : ns[x].children = <<>>}

\* the ancestors of n, nearest first
RECURSIVE Ancestors(_, _)
Ancestors(ns, n) == IF ns[n].up = 0 THEN <<>> ELSE <<ns[n].up>> \o Ancestors(ns, ns[n].up)

\* build was called without include and ignore lists and with the default quota
NoFilters ==
    /\ call.args.clades_to_include = <<>>
    /\ call.args.clades_to_ignore = <<>>
    /\ call.args.max_seqs_per_leaf = UNLIMITED

\* C12: build with no include/ignore filters and unlimited quota returns a tree
\* whose leaves are exactly the returned identifiers, one leaf per identifier:
\* the number of leaves is the length of the returned list.
C12_LeavesAreReturnedIds ==
    (Built /\ NoFilters) =>
        /\ Cardinality(Leaves(nodes, ReturnedRoot)) = Len(ReturnedIds)
        /\ {nodes[x].name : x \in Leaves(nodes, ReturnedRoot)} = Range(ReturnedIds)

\* the LineageKey of the first p names of a rank path
KeyOfPrefix(ranks, p) == get_rank_uid(SliceTo(ranks, p), -1)

\* the names of the ancestors anc (nearest first, the root left out) are keys of
\* prefixes of ranks whose lengths grow from the root toward the leaf
MatchesPrefixes(ns, anc, ranks) ==
    \E len \in [DOMAIN anc -> 1..Len(ranks)] :
        /\ \A i \in DOMAIN anc : ns[anc[i]].name = KeyOfPrefix(ranks, len[i])
        /\ \A i \in DOMAIN anc : \A j \in DOMAIN anc : i < j => len[i] > len[j]

\* the ancestors of n without the root of its tree
InnerAncestors(ns, n) == SelectSeq(Ancestors(ns, n), LAMBDA x : ns[x].up # 0)

\* C13: in the tree build returns with no filters and unlimited quota, every
\* ancestor of a leaf other than the root is named by the LineageKey of a
\* prefix of the leaf's own rank path, and the prefixes get strictly longer
\* from the root toward the leaf.
C13_AncestorsArePrefixKeys ==
    (Built /\ NoFilters) =>
        \A x \in Leaves(nodes, ReturnedRoot) :
            x # ReturnedRoot =>
                /\ nodes[x].name \in DOMAIN seq_ranks_map
                /\ MatchesPrefixes(nodes, InnerAncestors(nodes, x), Ranks(nodes[x].name))

\* a leaf of a tree built without filters lies under two clade nodes, and a
\* leaf whose rank path holds an empty marker lies under a clade node
C13_Witness ==
    /\ Built
    /\ NoFilters
    /\ \E x \in Leaves(nodes, ReturnedRoot) : Len(InnerAncestors(nodes, x)) = 2
    /\ \E x \in Leaves(nodes, ReturnedRoot) :
           /\ Len(InnerAncestors(nodes, x)) > 0
           /\ nodes[x].name \in DOMAIN seq_ranks_map
           /\ EMPTY_RANK \in Range(Ranks(nodes[x].name))

\* the returned identifiers whose lowest assigned level is the last position
\* of their rank path and whose parent key is P
QuotaLeaves(P) ==
    {k \in DOMAIN ReturnedIds :
        LET ranks == Ranks(ReturnedIds[k])
        IN  /\ lowest_assigned_rank_level(ranks) = Len(ranks) - 1
            /\ get_rank_uid(ranks, -1) = P}

\* C15: for every quota, every iteration order and every parent key P, build
\* accepts at most max_seqs_per_leaf sequences whose lowest assigned level is
\* the last position of their rank path and whose parent key is P.
C15_QuotaNeverExceeded ==
    Built =>
        \A sid \in DOMAIN seq_ranks_map :
            Cardinality(QuotaLeaves(get_rank_uid(Ranks(sid), -1))) <= call.args.max_seqs_per_leaf

\* the clade nodes the last build created: the nodes, from its root on, that
\* were given a child
CreatedClades == {n \in DOMAIN unpruned : n > ReturnedRoot /\ unpruned[n].children # <<>>}

\* the key is the LineageKey of a prefix of the rank path that ends at an
\* assigned level
IsAncestorKey(key, ranks) ==
    \E p \in 1..Len(ranks) : ranks[p] # EMPTY_RANK /\ get_rank_uid(ranks, p - 1) = key

\* C16: during one build run each LineageKey gets at most one tree node, also
\* for paths with empty markers at interior positions or at the root position
\* (min_rank > 0), and every accepted sequence that has the key as an ancestor
\* prefix is a descendant of that node.
C16_OneNodePerKey ==
    Built =>
        /\ \A n1 \in CreatedClades, n2 \in CreatedClades :
               unpruned[n1].name = unpruned[n2].name => n1 = n2
        /\ \A n \in CreatedClades : \A k \in DOMAIN ReturnedIds :
               IsAncestorKey(unpruned[n].name, Ranks(ReturnedIds[k]))
                   => \E x \in Subtree(unpruned, n) : unpruned[x].name = ReturnedIds[k]

\* the nodes of the tree as built that the post-pass is to collapse: the nodes
\* under the root with exactly one child
Collapsed ==
    {n \in Subtree(unpruned, ReturnedRoot) \ {ReturnedRoot} : Len(unpruned[n].children) = 1}

\* the nearest ancestor of n in the tree as built that is not collapsed
RECURSIVE KeptAncestor(_)
KeptAncestor(n) ==
    IF unpruned[n].up \in Collapsed THEN KeptAncestor(unpruned[n].up) ELSE unpruned[n].up

\* the pass removed the collapsed nodes and nothing else, and every node left
\* hangs under the nearest ancestor left: the single child of a collapsed node
\* has taken its place, and the leaves are the leaves the tree had as built
CollapsedSpliced ==
    /\ Subtree(nodes, ReturnedRoot) = Subtree(unpruned, ReturnedRoot) \ Collapsed
    /\ \A n \in Subtree(nodes, ReturnedRoot) \ {ReturnedRoot} : nodes[n].up = KeptAncestor(n)
    /\ Leaves(nodes, ReturnedRoot) \ {ReturnedRoot} = Leaves(unpruned, ReturnedRoot) \ {ReturnedRoot}

\* C17 as stated: in the tree build returns no node, the root included, has
\* exactly one child; the single child of each collapsed node has taken its
\* place under that node's parent, and the set of leaves is as it was built.
C17_NoUnaryNodeRootIncluded ==
    Built =>
        /\ \A n \in Subtree(nodes, ReturnedRoot) : Len(nodes[n].children) # 1
        /\ CollapsedSpliced

\* C17, amended: in the tree build returns no node other than the root has
\* exactly one child (the root has no parent to splice its child into and keeps
\* a single child); the single child of each collapsed node has taken its place
\* under that node's parent, and the set of leaves is as it was built.
C17_NoUnaryNodeBelowRoot ==
    Built =>
        /\ \A n \in Subtree(nodes, ReturnedRoot) \ {ReturnedRoot} : Len(nodes[n].children) # 1
        /\ CollapsedSpliced

\* the pass collapsed a node below a clade node, and that clade node is left
\* with the two leaves
C17_Witness ==
    /\ Built
    /\ \E n \in Collapsed :
           /\ unpruned[n].up # ReturnedRoot
           /\ unpruned[n].up \notin Collapsed
           /\ Len(nodes[unpruned[n].up].children) = 2
           /\ nodes[unpruned[n].children[1]].up = unpruned[n].up

\* some (level, name) entry of clades equals the name the rank path has at that level
SomeEntryMatches(ranks, clades) ==
    \E k \in DOMAIN clades : HasIndex(ranks, clades[k][1]) /\ Item(ranks, clades[k][1]) = clades[k][2]

\* the three filters of build on one rank path
AtMinRank(ranks) == HasIndex(ranks, call.args.min_rank) /\ Item(ranks, call.args.min_rank) # EMPTY_RANK
Included(ranks) ==
    call.args.clades_to_include = <<>> \/ SomeEntryMatches(ranks, call.args.clades_to_include)
NotIgnored(ranks) == ~SomeEntryMatches(ranks, call.args.clades_to_ignore)
PassesFilters(ranks) == AtMinRank(ranks) /\ Included(ranks) /\ NotIgnored(ranks)

\* C18: an identifier is in the list build returns only if its rank path is
\* assigned at min_rank, clades_to_include is empty or has an entry equal to
\* the path's name at its level, and no entry of clades_to_ignore equals the
\* path's name at its level; with unlimited quota every such identifier is in
\* the list.
C18_ReturnedIdsPassFilters ==
    Built =>
        /\ \A k \in DOMAIN ReturnedIds : PassesFilters(Ranks(ReturnedIds[k]))
        /\ call.args.max_seqs_per_leaf = UNLIMITED =>
               \A sid \in DOMAIN seq_ranks_map :
                   PassesFilters(Ranks(sid)) => sid \in Range(ReturnedIds)

\* a build with both lists and unlimited quota that accepted a sequence and
\* rejected one at min_rank and one for the ignore list
C18_Witness ==
    /\ Built
    /\ call.args.max_seqs_per_leaf = UNLIMITED
    /\ call.args.clades_to_include # <<>>
    /\ Len(ReturnedIds) = 1
    /\ \E sid \in DOMAIN seq_ranks_map : ~AtMinRank(Ranks(sid))
    /\ \E sid \in DOMAIN seq_ranks_map :
           AtMinRank(Ranks(sid)) /\ Included(Ranks(sid)) /\ ~NotIgnored(Ranks(sid))

-----------------------------------------------------------------------------
(* check_for_duplicates and sequences of one lineage *)

\* C21: check_for_duplicates(autofix=True) keeps clades together: two sequences
\* whose rank paths were identical before the pass have identical rank paths
\* after it, in whatever order the store is iterated.
C21_SameLineageStaysSame ==
    DuplicatesFixed =>
        \A s1 \in DOMAIN old.seq_ranks, s2 \in DOMAIN old.seq_ranks :
            old.seq_ranks[s1] = old.seq_ranks[s2] => Ranks(s1) = Ranks(s2)

-----------------------------------------------------------------------------
(* build called again on the same builder *)

\* what the first call of build on a builder made for the store returns, given
\* the arguments and the order of the last call
FirstBuild ==
    build(seq_ranks_map, lists, <<>>, <<>>, <<>>, call.args.order, call.args)

\* the last call was a call of build after the first, and both returned
Rebuilt == Built /\ call.again /\ FirstBuild.exc = "none"

\* C22: a second call of build on the same builder, with the same store and
\* arguments, is a full rebuild: it returns the list of identifiers the first
\* call returned, and every identifier of the list names a leaf of the tree
\* under the root it returns.
C22_SecondBuildIsFullRebuild ==
    Rebuilt =>
        /\ ReturnedIds = FirstBuild.ret.tuple[2]
        /\ \A k \in DOMAIN ReturnedIds :
               \E x \in Leaves(nodes, ReturnedRoot) : nodes[x].name = ReturnedIds[k]

====
